---------------------------- MODULE Spec2Model ----------------------------
(***************************************************************************)
(* Model of spotify_to_hitster.py: the artist-name matcher (_normalise,    *)
(* _artists_match), the year extraction (_year), the rate-limited          *)
(* MusicBrainz call wrapper (_mb_call), the year resolver                  *)
(* (find_original_year) and the per-track loop of main().                  *)
(*                                                                         *)
(* Python strings are modelled as sequences of one-character strings, so   *)
(* that the regular-expression steps act on characters.  An optional int   *)
(* (int | None) is modelled as a sequence of length 0 (None) or 1.         *)
(* Time is counted in tenths of a second.                                  *)
(***************************************************************************)
EXTENDS Integers, Sequences, FiniteSets, TLC

(***************************************************************************)
(* Bounds of the model                                                     *)
(***************************************************************************)
\* tracks in the playlist
MaxTracks == 2
\* recordings in a search result
MaxRecs == 2
\* releases in all the release lists of one search result (SpecResolver)
MaxRels == 2
\* releases in the release list of one fetch (Spec)
MaxFetched == 1
\* fragments an artist name is built of (SpecNormalise)
MaxPieces == 4
\* characters of a date string (SpecYear)
MaxDateLen == 5

(***************************************************************************)
(* Generic helpers                                                         *)
(***************************************************************************)
None == <<>>

Some(v) == <<v>>

Truthy(o) == o # None /\ o[1] # 0

MinOfSet(S) == CHOOSE m \in S : \A x \in S : m <= x

Range(s) == {s[n] : n \in 1..Len(s)}

SeqsUpTo(S, n) == UNION {[1..m -> S] : m \in 0..n}

RECURSIVE Flatten(_)
Flatten(ss) == IF ss = <<>> THEN <<>> ELSE Head(ss) \o Flatten(Tail(ss))

(***************************************************************************)
(* Characters: Python's str.lower, \w and \s on the characters used        *)
(***************************************************************************)
UpperCase == <<"A","B","C","D","E","F","G","H","I","J","K","L","M",
               "N","O","P","Q","R","S","T","U","V","W","X","Y","Z">>

LowerCase == <<"a","b","c","d","e","f","g","h","i","j","k","l","m",
               "n","o","p","q","r","s","t","u","v","w","x","y","z">>

Digits == <<"0","1","2","3","4","5","6","7","8","9">>

\* str.lower on one character
LowerMap ==
    [c \in Range(UpperCase) |->
        LowerCase[CHOOSE n \in 1..Len(UpperCase) : UpperCase[n] = c]]

LowerOf(c) == IF c \in DOMAIN LowerMap THEN LowerMap[c] ELSE c

DigitChars == Range(Digits)

\* the characters \w matches
WordChars == Range(UpperCase) \cup Range(LowerCase) \cup Range(Digits) \cup {"_"}

IsDigit(c) == c \in DigitChars

IsWord(c) == c \in WordChars

IsSpace(c) == c = " "

DigitVal(c) == (CHOOSE n \in 1..Len(Digits) : Digits[n] = c) - 1

(***************************************************************************)
(* _normalise, step by step                                                *)
(***************************************************************************)
Lower(s) == [n \in 1..Len(s) |-> LowerOf(s[n])]

\* re.sub(open + ".*?" + close, "", s): from each opening character, the
\* shortest segment up to the next closing character is removed.
RECURSIVE RemoveSegments(_, _, _)
RemoveSegments(s, open, close) ==
    IF s = <<>> THEN <<>>
    ELSE IF Head(s) = open /\ \E j \in 2..Len(s) : s[j] = close
         THEN LET j == CHOOSE j \in 2..Len(s) :
                          s[j] = close /\ \A m \in 2..(j - 1) : s[m] # close
              IN  RemoveSegments(SubSeq(s, j + 1, Len(s)), open, close)
         ELSE <<Head(s)>> \o RemoveSegments(Tail(s), open, close)

\* \b before position n of s, where s[n] is a word character
BoundaryBefore(s, n) == n = 1 \/ ~IsWord(s[n - 1])

\* \b after position n of s, where s[n] is a word character
BoundaryAfter(s, n) == n = Len(s) \/ ~IsWord(s[n + 1])

MatchAt(s, n, tok) ==
    /\ n + Len(tok) - 1 <= Len(s)
    /\ \A j \in 1..Len(tok) : s[n + j - 1] = tok[j]

\* re.sub(r"\b" + tok + ".*", "", s), tok beginning with a word character:
\* the string is cut at the first match (".*" runs to the end of the line).
TruncateAt(s, tok) ==
    LET hits == {n \in 1..Len(s) : MatchAt(s, n, tok) /\ BoundaryBefore(s, n)}
    IN  IF hits = {} THEN s ELSE SubSeq(s, 1, MinOfSet(hits) - 1)

\* re.sub(r"[^\w\s]", "", s)
StripPunct(s) == SelectSeq(s, LAMBDA c : IsWord(c) \/ IsSpace(c))

\* re.sub(r"\b" + w + r"\b", "", s), scanning from position n
RECURSIVE RemoveWordFrom(_, _, _)
RemoveWordFrom(s, n, w) ==
    IF n > Len(s) THEN <<>>
    ELSE IF /\ MatchAt(s, n, w)
            /\ BoundaryBefore(s, n)
            /\ BoundaryAfter(s, n + Len(w) - 1)
         THEN RemoveWordFrom(s, n + Len(w), w)
         ELSE <<s[n]>> \o RemoveWordFrom(s, n + 1, w)

RemoveWord(s, w) == RemoveWordFrom(s, 1, w)

\* str.strip()
RECURSIVE Strip(_)
Strip(s) ==
    IF s = <<>> THEN s
    ELSE IF IsSpace(Head(s)) THEN Strip(Tail(s))
    ELSE IF IsSpace(s[Len(s)]) THEN Strip(SubSeq(s, 1, Len(s) - 1))
    ELSE s

Feat == <<"f","e","a","t",".">>

Ft == <<"f","t",".">>

The == <<"t","h","e">>

\* The same steps with the punctuation stripped after the removal of "the"
normalise_the_first(name) ==
    LET s1 == Lower(name)
        s2 == RemoveSegments(s1, "(", ")")
        s3 == RemoveSegments(s2, "[", "]")
        s4 == TruncateAt(s3, Feat)
        s5 == TruncateAt(s4, Ft)
        s6 == RemoveWord(s5, The)
        s7 == StripPunct(s6)
    IN  Strip(s7)

_normalise(name) ==
    LET s1 == Lower(name)
        s2 == RemoveSegments(s1, "(", ")")
        s3 == RemoveSegments(s2, "[", "]")
        s4 == TruncateAt(s3, Feat)
        s5 == TruncateAt(s4, Ft)
        s6 == StripPunct(s5)
        s7 == RemoveWord(s6, The)
    IN  Strip(s7)

\* Python's "a in b" on strings
IsSubstring(a, b) == \E n \in 1..(Len(b) - Len(a) + 1) : MatchAt(b, n, a)

_artists_match(a, b) ==
    LET na == _normalise(a)
        nb == _normalise(b)
    IN  na = nb \/ IsSubstring(na, nb) \/ IsSubstring(nb, na)

(***************************************************************************)
(* _year: int(date_str[:4]), None on the empty string and on ValueError    *)
(***************************************************************************)
\* the digits-and-underscores body of a Python integer literal
ValidIntBody(b) ==
    /\ b # <<>>
    /\ \A n \in 1..Len(b) : IsDigit(b[n]) \/ b[n] = "_"
    /\ IsDigit(b[1]) /\ IsDigit(b[Len(b)])
    /\ \A n \in 1..(Len(b) - 1) : ~(b[n] = "_" /\ b[n + 1] = "_")

RECURSIVE DigitsValue(_)
DigitsValue(b) ==
    IF b = <<>> THEN 0
    ELSE IF b[Len(b)] = "_" THEN DigitsValue(SubSeq(b, 1, Len(b) - 1))
    ELSE 10 * DigitsValue(SubSeq(b, 1, Len(b) - 1)) + DigitVal(b[Len(b)])

\* int(s) for a str s: None stands for ValueError
PyInt(s) ==
    LET t == Strip(s)
        signed == t # <<>> /\ Head(t) \in {"+", "-"}
        body == IF signed THEN Tail(t) ELSE t
    IN  IF ~ValidIntBody(body) THEN None
        ELSE IF signed /\ Head(t) = "-" THEN Some(0 - DigitsValue(body))
        ELSE Some(DigitsValue(body))

Prefix(s, n) == SubSeq(s, 1, IF Len(s) < n THEN Len(s) ELSE n)

YearLen == 4

_year(date_str) ==
    IF date_str = <<>> THEN None ELSE PyInt(Prefix(date_str, YearLen))


(***************************************************************************)
(* MusicBrainz data: recordings, artist credits, release lists             *)
(***************************************************************************)
\* an entry of a recording's "artist-credit": a dict with an "artist", or a
\* join-phrase string
ArtistCredit(n) == [artist |-> TRUE, name |-> n]

JoinPhrase(p) == [artist |-> FALSE, name |-> p]

NameTheA == <<"T","h","e"," ","A">>

NameA == <<"A">>

NameB == <<"B">>

NameBftA == <<"B"," ","f","t","."," ","A">>

Amp == <<" ","&"," ">>

Artists == {NameTheA, NameB}

CreditLists ==
    { <<>>,
      <<ArtistCredit(NameA), JoinPhrase(Amp), ArtistCredit(NameB)>>,
      <<JoinPhrase(Amp), ArtistCredit(NameBftA)>> }

Date1967 == <<"1","9","6","7">>

Date1994 == <<"1","9","9","4","-","0","3","-","0","1">>

Date0000 == <<"0","0","0","0">>

Dates == {<<>>, Date1967, Date1994, Date0000}

\* the outcome of get_recording_by_id: WebServiceError, or a release list
DetailError == [ok |-> FALSE, release_list |-> <<>>]

Detail(rels) == [ok |-> TRUE, release_list |-> rels]

\* the outcome of search_recordings: WebServiceError, or a recording list
SearchError == [ok |-> FALSE, recordings |-> <<>>]

SearchResult(recs) == [ok |-> TRUE, recordings |-> recs]

(***************************************************************************)
(* find_original_year                                                      *)
(***************************************************************************)
\* next((c["artist"]["name"] for c in credits if ... "artist" in c), None)
mb_artist(credits) ==
    LET hits == {n \in 1..Len(credits) : credits[n].artist}
    IN  IF hits = {} THEN None ELSE Some(credits[MinOfSet(hits)].name)

\* the artist filter that also rejects a recording without credit data
discarded_when_unknown(artist, rec) ==
    LET m == mb_artist(rec.artist_credit)
    IN  m = None \/ ~_artists_match(artist, m[1])

\* if mb_artist and not _artists_match(artist, mb_artist): continue
Discarded(artist, rec) ==
    LET m == mb_artist(rec.artist_credit)
    IN  m # None /\ m[1] # <<>> /\ ~_artists_match(artist, m[1])

\* the update of earliest that overwrites it with every year found
update_last_wins(earliest, date_str) ==
    LET y == _year(date_str)
    IN  IF Truthy(y) THEN y ELSE earliest

\* y = _year(...); if y and (earliest is None or y < earliest): earliest = y
UpdateEarliest(earliest, date_str) ==
    LET y == _year(date_str)
    IN  IF Truthy(y) /\ (earliest = None \/ y[1] < earliest[1])
        THEN y ELSE earliest

\* for release in releases: ...
RECURSIVE ScanReleases(_, _)
ScanReleases(earliest, releases) ==
    IF releases = <<>> THEN earliest
    ELSE ScanReleases(UpdateEarliest(earliest, Head(releases)), Tail(releases))

\* the loop over the recordings left at the first recording that gives a year
RECURSIVE scan_first_hit(_, _, _)
scan_first_hit(artist, recs, earliest) ==
    IF recs = <<>> \/ earliest # None THEN earliest
    ELSE LET rec == Head(recs)
         IN  IF Discarded(artist, rec) \/ ~rec.detail.ok
             THEN scan_first_hit(artist, Tail(recs), earliest)
             ELSE scan_first_hit(artist, Tail(recs),
                                 ScanReleases(earliest, rec.detail.release_list))

\* for rec in recordings: ...  (detail is the service's answer for rec)
RECURSIVE ScanRecordings(_, _, _)
ScanRecordings(artist, recs, earliest) ==
    IF recs = <<>> THEN earliest
    ELSE LET rec == Head(recs)
         IN  IF Discarded(artist, rec)
             THEN ScanRecordings(artist, Tail(recs), earliest)
             ELSE IF ~rec.detail.ok
             THEN ScanRecordings(artist, Tail(recs), earliest)
             ELSE ScanRecordings(artist, Tail(recs),
                                 ScanReleases(earliest, rec.detail.release_list))

find_original_year(artist, outcome) ==
    IF ~outcome.ok THEN None
    ELSE IF outcome.recordings = <<>> THEN None
    ELSE ScanRecordings(artist, outcome.recordings, None)

(***************************************************************************)
(* State                                                                   *)
(***************************************************************************)
VARIABLES
    tracks,       \* main: the playlist, a sequence of {title, artist, spotify_year}
    i,            \* main: number of the track of the current iteration
    pc,           \* position of the single thread of control
    songs,        \* main: songs, a sequence of [title, artist, year]
    skipped,      \* main: skipped, a sequence of "artist - title"
    output,       \* the JSON file: None until written, then the dumped list
    mb_year,      \* main: the value find_original_year returned
    recordings,   \* find_original_year: result["recording-list"]
    k,            \* find_original_year: position of rec in recordings
    earliest,     \* find_original_year: earliest
    waited,       \* time slept in time.sleep since the last MusicBrainz call returned
    mbYears,      \* history: per track, what find_original_year returned
    years,        \* history: per track, the value of year in main
    searchFailed, \* history: the search of the current track raised WebServiceError
    nSearch,      \* history: search calls issued for the current track
    nFetch,       \* history: release fetches issued for the current track
    fetchCalls,   \* history: per recording of the current track, fetches issued
    fetchOK,      \* history: per recording of the current track, fetch outcome
    yearsOK,      \* history: years accepted from the fetched release lists
    stage,        \* which function is being exercised, and how far
    name,         \* _normalise: its argument
    normed,       \* _normalise(name)
    renormed,     \* _normalise(_normalise(name))
    date_str,     \* _year: its argument
    yr,           \* _year(date_str)
    q_artist,     \* find_original_year: its artist argument
    response,     \* what MusicBrainz answers to the search and to each fetch
    resolved      \* find_original_year(title, q_artist)

progVars == <<tracks, i, pc, songs, skipped, output, mb_year, recordings, k,
              earliest, waited, mbYears, years, searchFailed, nSearch,
              nFetch, fetchCalls, fetchOK, yearsOK>>

funVars == <<stage, name, normed, renormed, date_str, yr, q_artist, response,
             resolved>>

vars == <<progVars, funVars>>

(***************************************************************************)
(* Inputs                                                                  *)
(***************************************************************************)
\* playlist entries; spotify_year is int(raw_date[:4]) if raw_date else None
Track(t, a, y) == [title |-> t, artist |-> a, spotify_year |-> y]

TrackQueries ==
    { Track("Yesterday", NameTheA, Some(2009)),
      Track("Help", NameB, None) }

\* recording lists a search may return
RecordingLists == SeqsUpTo([artist_credit : CreditLists], MaxRecs)

\* release lists a fetch may return
ReleaseLists == SeqsUpTo(Dates, MaxFetched)

FunIdle ==
    /\ stage = "program"
    /\ name = <<>> /\ normed = <<>> /\ renormed = <<>>
    /\ date_str = <<>> /\ yr = None
    /\ q_artist = <<>> /\ response = SearchError /\ resolved = None

ProgIdle ==
    /\ tracks = <<>> /\ i = 0 /\ pc = "idle"
    /\ songs = <<>> /\ skipped = <<>> /\ output = None
    /\ mb_year = None /\ recordings = <<>> /\ k = 0 /\ earliest = None
    /\ waited = 0 /\ mbYears = <<>> /\ years = <<>>
    /\ searchFailed = FALSE /\ nSearch = 0 /\ nFetch = 0
    /\ fetchCalls = <<>> /\ fetchOK = <<>> /\ yearsOK = {}

(***************************************************************************)
(* The program: main's loop, find_original_year and _mb_call, step by step *)
(***************************************************************************)
Init ==
    /\ tracks \in SeqsUpTo(TrackQueries, MaxTracks)
    /\ i = 0 /\ pc = "loop"
    /\ songs = <<>> /\ skipped = <<>> /\ output = None
    /\ mb_year = None /\ recordings = <<>> /\ k = 0 /\ earliest = None
    /\ waited = 0 /\ mbYears = <<>> /\ years = <<>>
    /\ searchFailed = FALSE /\ nSearch = 0 /\ nFetch = 0
    /\ fetchCalls = <<>> /\ fetchOK = <<>> /\ yearsOK = {}
    /\ FunIdle

artist == tracks[i].artist

title == tracks[i].title

spotify_year == tracks[i].spotify_year

\* for i, track in enumerate(tracks, 1): ... mb_year = find_original_year(...)
\* enters find_original_year, whose first statement is the search _mb_call
NextTrack ==
    /\ pc = "loop" /\ i < Len(tracks)
    /\ i' = i + 1
    /\ pc' = "search_sleep"
    /\ recordings' = <<>> /\ k' = 0 /\ earliest' = None /\ mb_year' = None
    /\ searchFailed' = FALSE /\ nSearch' = 0 /\ nFetch' = 0
    /\ fetchCalls' = <<>> /\ fetchOK' = <<>> /\ yearsOK' = {}
    /\ UNCHANGED <<tracks, songs, skipped, output, waited, mbYears, years>>
    /\ UNCHANGED funVars

\* _mb_call: time.sleep(1.1), which lasts at least the time asked for
SleepTicks == 11

\* by how much a sleep may overrun
Oversleep == {0, 1}

MbSleep ==
    /\ pc \in {"search_sleep", "fetch_sleep"}
    /\ \E j \in Oversleep : waited' = waited + SleepTicks + j
    /\ pc' = IF pc = "search_sleep" THEN "search_call" ELSE "fetch_call"
    /\ UNCHANGED <<tracks, i, songs, skipped, output, mb_year, recordings, k,
                   earliest, mbYears, years, searchFailed, nSearch, nFetch,
                   fetchCalls, fetchOK, yearsOK>>
    /\ UNCHANGED funVars

\* a search failure that is tried again
SearchFail_retry ==
    /\ pc = "search_call"
    /\ searchFailed' = TRUE
    /\ nSearch' = nSearch + 1
    /\ waited' = 0
    /\ pc' = IF nSearch = 0 THEN "search_sleep" ELSE "got_year"
    /\ mb_year' = None
    /\ UNCHANGED <<nFetch, tracks, i, songs, skipped, output, recordings, k, earliest,
                   mbYears, years, fetchCalls, fetchOK, yearsOK>>
    /\ UNCHANGED funVars

\* search_recordings raises WebServiceError: print, return None
SearchFail ==
    /\ pc = "search_call"
    /\ searchFailed' = TRUE
    /\ nSearch' = nSearch + 1
    /\ waited' = 0
    /\ mb_year' = None
    /\ pc' = "got_year"
    /\ UNCHANGED <<nFetch, tracks, i, songs, skipped, output, recordings, k, earliest,
                   mbYears, years, fetchCalls, fetchOK, yearsOK>>
    /\ UNCHANGED funVars

\* search_recordings returns; an empty recording-list returns None
SearchOK ==
    /\ pc = "search_call"
    /\ \E recs \in RecordingLists :
          /\ recordings' = recs
          /\ fetchCalls' = [n \in 1..Len(recs) |-> 0]
          /\ fetchOK' = [n \in 1..Len(recs) |-> "none"]
          /\ IF recs = <<>>
             THEN pc' = "got_year" /\ k' = 0
             ELSE pc' = "filter" /\ k' = 1
    /\ nSearch' = nSearch + 1
    /\ waited' = 0
    /\ mb_year' = None
    /\ earliest' = None
    /\ UNCHANGED <<nFetch, tracks, i, songs, skipped, output, mbYears, years,
                   searchFailed, yearsOK>>
    /\ UNCHANGED funVars

\* the loop head with a release fetch issued without _mb_call's sleep
Filter_no_gate ==
    /\ pc = "filter"
    /\ IF k > Len(recordings)
       THEN /\ mb_year' = earliest
            /\ pc' = "got_year"
            /\ k' = k
       ELSE IF Discarded(artist, recordings[k])
       THEN /\ k' = k + 1
            /\ UNCHANGED <<mb_year, pc>>
       ELSE /\ pc' = "fetch_call"
            /\ UNCHANGED <<mb_year, k>>
    /\ UNCHANGED <<tracks, i, songs, skipped, output, recordings, earliest,
                   waited, mbYears, years, searchFailed, nSearch, nFetch, fetchCalls,
                   fetchOK, yearsOK>>
    /\ UNCHANGED funVars

\* for rec in recordings: the artist filter; after the last one, return earliest
Filter ==
    /\ pc = "filter"
    /\ IF k > Len(recordings)
       THEN /\ mb_year' = earliest
            /\ pc' = "got_year"
            /\ k' = k
       ELSE IF Discarded(artist, recordings[k])
       THEN /\ k' = k + 1
            /\ UNCHANGED <<mb_year, pc>>
       ELSE /\ pc' = "fetch_sleep"
            /\ UNCHANGED <<mb_year, k>>
    /\ UNCHANGED <<tracks, i, songs, skipped, output, recordings, earliest,
                   waited, mbYears, years, searchFailed, nSearch, nFetch, fetchCalls,
                   fetchOK, yearsOK>>
    /\ UNCHANGED funVars

\* a fetch failure that ends the loop over the recordings
FetchFail_abort ==
    /\ pc = "fetch_call"
    /\ fetchCalls' = [fetchCalls EXCEPT ![k] = @ + 1]
    /\ fetchOK' = [fetchOK EXCEPT ![k] = "error"]
    /\ waited' = 0
    /\ nFetch' = nFetch + 1
    /\ k' = Len(recordings) + 1
    /\ pc' = "filter"
    /\ UNCHANGED <<tracks, i, songs, skipped, output, mb_year, recordings,
                   earliest, mbYears, years, searchFailed, nSearch, yearsOK>>
    /\ UNCHANGED funVars

\* get_recording_by_id raises WebServiceError: print, continue
FetchFail ==
    /\ pc = "fetch_call"
    /\ fetchCalls' = [fetchCalls EXCEPT ![k] = @ + 1]
    /\ fetchOK' = [fetchOK EXCEPT ![k] = "error"]
    /\ waited' = 0
    /\ nFetch' = nFetch + 1
    /\ k' = k + 1
    /\ pc' = "filter"
    /\ UNCHANGED <<tracks, i, songs, skipped, output, mb_year, recordings,
                   earliest, mbYears, years, searchFailed, nSearch, yearsOK>>
    /\ UNCHANGED funVars

\* get_recording_by_id returns; the loop over its release-list
FetchOK ==
    /\ pc = "fetch_call"
    /\ \E releases \in ReleaseLists :
          /\ earliest' = ScanReleases(earliest, releases)
          /\ yearsOK' = yearsOK \cup
                {_year(releases[n])[1] : n \in {m \in 1..Len(releases) :
                                                  Truthy(_year(releases[m]))}}
    /\ fetchCalls' = [fetchCalls EXCEPT ![k] = @ + 1]
    /\ fetchOK' = [fetchOK EXCEPT ![k] = "ok"]
    /\ waited' = 0
    /\ nFetch' = nFetch + 1
    /\ k' = k + 1
    /\ pc' = "filter"
    /\ UNCHANGED <<tracks, i, songs, skipped, output, mb_year, recordings,
                   mbYears, years, searchFailed, nSearch>>
    /\ UNCHANGED funVars

\* the choice of year with the playlist's year taken first
choose_spotify_first(mb, sp) ==
    IF Truthy(sp) THEN sp ELSE IF Truthy(mb) THEN mb ELSE None

\* if mb_year: year = mb_year  elif spotify_year: year = spotify_year
\* else: year = None
ChooseYear(mb, sp) ==
    IF Truthy(mb) THEN mb ELSE IF Truthy(sp) THEN sp ELSE None

\* the recording of a track that keeps only the tracks MusicBrainz dated
Record_mb_only ==
    /\ pc = "got_year"
    /\ LET year == ChooseYear(mb_year, spotify_year)
       IN  /\ years' = Append(years, year)
           /\ IF Truthy(mb_year)
              THEN /\ songs' = Append(songs, <<title, artist, year>>)
                   /\ UNCHANGED skipped
              ELSE /\ skipped' = Append(skipped, <<artist, title>>)
                   /\ UNCHANGED songs
    /\ mbYears' = Append(mbYears, mb_year)
    /\ pc' = "loop"
    /\ UNCHANGED <<tracks, i, output, mb_year, recordings, k, earliest, waited,
                   searchFailed, nSearch, nFetch, fetchCalls, fetchOK, yearsOK>>
    /\ UNCHANGED funVars

\* if year: songs.append([title, artist, year])  else: skipped.append(...)
Record ==
    /\ pc = "got_year"
    /\ LET year == ChooseYear(mb_year, spotify_year)
       IN  /\ years' = Append(years, year)
           /\ IF Truthy(year)
              THEN /\ songs' = Append(songs, <<title, artist, year>>)
                   /\ UNCHANGED skipped
              ELSE /\ skipped' = Append(skipped, <<artist, title>>)
                   /\ UNCHANGED songs
    /\ mbYears' = Append(mbYears, mb_year)
    /\ pc' = "loop"
    /\ UNCHANGED <<tracks, i, output, mb_year, recordings, k, earliest, waited,
                   searchFailed, nSearch, nFetch, fetchCalls, fetchOK, yearsOK>>
    /\ UNCHANGED funVars

\* after the loop: json.dump(songs, f), then the report of the skipped tracks
WriteOutput ==
    /\ pc = "loop" /\ i = Len(tracks)
    /\ output' = Some(songs)
    /\ pc' = "done"
    /\ UNCHANGED <<tracks, i, songs, skipped, mb_year, recordings, k, earliest,
                   waited, mbYears, years, searchFailed, nSearch, nFetch, fetchCalls,
                   fetchOK, yearsOK>>
    /\ UNCHANGED funVars

Next ==
    \/ NextTrack
    \/ MbSleep
    \/ SearchFail
    \/ SearchOK
    \/ Filter
    \/ FetchFail
    \/ FetchOK
    \/ Record
    \/ WriteOutput

Spec == Init /\ [][Next]_vars

(***************************************************************************)
(* find_original_year as a function of what MusicBrainz answers           *)
(***************************************************************************)
\* The answers MusicBrainz will give are built up before the call: a failing
\* search or a recording list, each recording with the answer to its fetch.
InitResolver ==
    /\ ProgIdle
    /\ stage = "input"
    /\ q_artist = NameTheA
    /\ response \in {SearchError, SearchResult(<<>>)}
    /\ resolved = None
    /\ name = <<>> /\ normed = <<>> /\ renormed = <<>>
    /\ date_str = <<>> /\ yr = None

RECURSIVE TotalReleases(_)
TotalReleases(recs) ==
    IF recs = <<>> THEN 0
    ELSE Len(Head(recs).detail.release_list) + TotalReleases(Tail(recs))

\* one more recording in the search result, its fetch failing or succeeding
AddRecording ==
    /\ stage = "input"
    /\ response.ok
    /\ Len(response.recordings) < MaxRecs
    /\ \E cl \in CreditLists, d \in {DetailError, Detail(<<>>)} :
          response' = SearchResult(Append(response.recordings,
                                          [artist_credit |-> cl, detail |-> d]))
    /\ UNCHANGED <<stage, name, normed, renormed, date_str, yr, q_artist, resolved>>
    /\ UNCHANGED progVars

\* one more release in the release list of the last recording
AddRelease ==
    /\ stage = "input"
    /\ response.ok
    /\ response.recordings # <<>>
    /\ TotalReleases(response.recordings) < MaxRels
    /\ LET n == Len(response.recordings)
           last == response.recordings[n]
       IN  /\ last.detail.ok
           /\ \E d \in Dates :
                 response' = SearchResult(
                     [response.recordings EXCEPT
                         ![n].detail.release_list = Append(@, d)])
    /\ UNCHANGED <<stage, name, normed, renormed, date_str, yr, q_artist, resolved>>
    /\ UNCHANGED progVars

Resolve ==
    /\ stage = "input"
    /\ resolved' = find_original_year(q_artist, response)
    /\ stage' = "resolved"
    /\ UNCHANGED <<name, normed, renormed, date_str, yr, q_artist, response>>
    /\ UNCHANGED progVars

NextResolver == AddRecording \/ AddRelease \/ Resolve

SpecResolver == InitResolver /\ [][NextResolver]_vars

(***************************************************************************)
(* _year on date strings                                                   *)
(***************************************************************************)
DateChars == {"0", "1", "9", "-", " ", "_", "a"}

DateStrings == SeqsUpTo(DateChars, MaxDateLen)

InitYear ==
    /\ ProgIdle
    /\ stage = "input"
    /\ date_str \in DateStrings
    /\ yr = None
    /\ name = <<>> /\ normed = <<>> /\ renormed = <<>>
    /\ q_artist = <<>> /\ response = SearchError /\ resolved = None

ExtractYear ==
    /\ stage = "input"
    /\ yr' = _year(date_str)
    /\ stage' = "extracted"
    /\ UNCHANGED <<name, normed, renormed, date_str, q_artist, response, resolved>>
    /\ UNCHANGED progVars

NextYear == ExtractYear

SpecYear == InitYear /\ [][NextYear]_vars

(***************************************************************************)
(* _normalise on artist names                                              *)
(***************************************************************************)
\* names are built from these fragments
Pieces ==
    { <<"t","h","e">>, <<"t">>, <<"h","e">>, <<"f","e","a","t",".">>,
      <<"f","t",".">>, <<"(">>, <<")">>, <<"[">>, <<"]">>, <<" ">>, <<".">>,
      <<"A">>, <<"_">> }

NameStrings == {Flatten(ps) : ps \in SeqsUpTo(Pieces, MaxPieces)}

InitNormalise ==
    /\ ProgIdle
    /\ stage = "input"
    /\ name \in NameStrings
    /\ normed = <<>> /\ renormed = <<>>
    /\ date_str = <<>> /\ yr = None
    /\ q_artist = <<>> /\ response = SearchError /\ resolved = None

Normalise ==
    /\ stage = "input"
    /\ normed' = _normalise(name)
    /\ stage' = "normalised"
    /\ UNCHANGED <<name, renormed, date_str, yr, q_artist, response, resolved>>
    /\ UNCHANGED progVars

NormaliseAgain ==
    /\ stage = "normalised"
    /\ renormed' = _normalise(normed)
    /\ stage' = "renormalised"
    /\ UNCHANGED <<name, normed, date_str, yr, q_artist, response, resolved>>
    /\ UNCHANGED progVars

NextNormalise == Normalise \/ NormaliseAgain

SpecNormalise == InitNormalise /\ [][NextNormalise]_vars

(***************************************************************************)
(* Properties                                                              *)
(***************************************************************************)
\* the recordings of a search result that pass the artist filter and whose
\* release fetch succeeded
Contributing(a, outcome) ==
    {n \in 1..Len(outcome.recordings) :
        /\ ~Discarded(a, outcome.recordings[n])
        /\ outcome.recordings[n].detail.ok}

\* the valid years of their releases: the years _year extracts, a year 0
\* (as from "0000") not counting as a year
ValidYears(a, outcome) ==
    UNION { {_year(outcome.recordings[n].detail.release_list[m])[1] :
                m \in {r \in 1..Len(outcome.recordings[n].detail.release_list) :
                         Truthy(_year(outcome.recordings[n].detail.release_list[r]))}} :
            n \in Contributing(a, outcome) }

\* C1: whatever the search returns and however each release fetch ends,
\* find_original_year returns the minimum of the valid years of the releases
\* of the candidates that pass the artist filter and whose fetch succeeded,
\* and None exactly when there is no such year.
C1_MinimumOfValidYears ==
    stage = "resolved" =>
        LET ys == IF response.ok THEN ValidYears(q_artist, response) ELSE {}
        IN  resolved = IF ys = {} THEN None ELSE Some(MinOfSet(ys))

\* C1 witness: one matching candidate with releases "1994-03-01" and "1967"
\* resolves to 1967.
C1_Witness ==
    /\ stage = "resolved"
    /\ q_artist = NameTheA
    /\ response.ok
    /\ Len(response.recordings) = 1
    /\ mb_artist(response.recordings[1].artist_credit) = Some(NameA)
    /\ response.recordings[1].detail = Detail(<<Date1994, Date1967>>)
    /\ resolved = Some(1967)

\* the permutations of 1..n
Perms(n) == {p \in [1..n -> 1..n] : \A a, b \in 1..n : p[a] = p[b] => a = b}

PermsUpTo == [n \in 0..MaxRecs |-> Perms(n)]

Permuted(recs, p) == [n \in 1..Len(recs) |-> recs[p[n]]]

\* C8: the year find_original_year returns does not depend on the order of
\* the search result: every permutation of the recording list, each recording
\* keeping its credits, its release dates and its fetch outcome, gives the
\* same year.
C8_OrderIndependent ==
    (stage = "resolved" /\ response.ok) =>
        \A p \in PermsUpTo[Len(response.recordings)] :
            find_original_year(q_artist,
                SearchResult(Permuted(response.recordings, p))) = resolved

\* C8 witness: two contributing recordings, the later year listed first
C8_Witness ==
    /\ stage = "resolved"
    /\ response.ok
    /\ Len(response.recordings) = 2
    /\ Contributing(q_artist, response) = {1, 2}
    /\ response.recordings[1].detail = Detail(<<Date1994>>)
    /\ response.recordings[2].detail = Detail(<<Date1967>>)
    /\ resolved = Some(1967)

\* the date string begins with four digits
BeginsWithYear(d) == Len(d) >= YearLen /\ \A n \in 1..YearLen : IsDigit(d[n])

\* C9: _year yields a 4-digit integer or None: None when the date string is
\* empty or does not begin with a 4-digit year, and otherwise that leading
\* year, so that every year lies in 1000..9999.
C9_YearIsFourDigitsOrNone ==
    stage = "extracted" =>
        /\ yr # None => yr[1] \in 1000..9999
        /\ ~BeginsWithYear(date_str) => yr = None
        /\ BeginsWithYear(date_str) =>
              yr = Some(DigitsValue(Prefix(date_str, YearLen)))

\* C10: _normalise is idempotent: normalising a normalised name changes nothing.
C10_NormaliseIdempotent ==
    stage = "renormalised" => renormed = normed

\* C10 witness: "The A" normalises to "a", and "a" to itself
C10_Witness ==
    /\ stage = "renormalised"
    /\ name = <<"t","h","e"," ","A">>
    /\ normed = <<"a">>
    /\ renormed = <<"a">>

\* the tracks processed so far
Processed == 1..Len(years)

\* C2: for every track the year recorded is the resolver's year whenever the
\* resolver yields one, even when the playlist's year differs, and is the
\* playlist's year only when the resolver yields none.
C2_ResolverYearFirst ==
    \A t \in Processed :
        /\ mbYears[t] # None => years[t] = mbYears[t]
        /\ mbYears[t] = None => years[t] \in {None, tracks[t].spotify_year}
        /\ (Truthy(years[t]) /\ t = Len(years) /\ pc = "loop") =>
              songs[Len(songs)] = <<tracks[t].title, tracks[t].artist, years[t]>>

\* C2 witness: a track whose releases give 1967 and whose playlist year is 2009
\* is recorded with 1967.
C2_Witness ==
    /\ pc = "loop" /\ i = 1
    /\ tracks[1].spotify_year = Some(2009)
    /\ mbYears[1] = Some(1967)
    /\ songs = <<<<"Yesterday", NameTheA, Some(1967)>>>>

\* the resolver or the playlist gave a year for track t
HasYear(t) == Truthy(mbYears[t]) \/ Truthy(tracks[t].spotify_year)

Indices(n) == [t \in 1..n |-> t]

\* C3: after the loop the output is the input-order subsequence of the tracks
\* for which the resolver or the playlist gave a year, each with a non-null
\* year, and the skip log is the input-order subsequence of the other tracks.
C3_OutputPartitionsInput ==
    pc = "done" =>
        LET kept == SelectSeq(Indices(Len(tracks)), HasYear)
            dropped == SelectSeq(Indices(Len(tracks)), LAMBDA t : ~HasYear(t))
        IN  /\ Len(years) = Len(tracks)
            /\ output = Some(songs)
            /\ Len(songs) = Len(kept)
            /\ \A n \in 1..Len(kept) :
                  /\ songs[n][1] = tracks[kept[n]].title
                  /\ songs[n][2] = tracks[kept[n]].artist
                  /\ songs[n][3] # None
            /\ skipped = [n \in 1..Len(dropped) |->
                            <<tracks[dropped[n]].artist, tracks[dropped[n]].title>>]

\* C3 witness: of two tracks the first is skipped after a failed search and
\* the second is written.
C3_Witness ==
    /\ pc = "done"
    /\ Len(tracks) = 2
    /\ Len(songs) = 1 /\ Len(skipped) = 1
    /\ skipped[1] = <<NameB, "Help">>
    /\ songs[1][1] = "Yesterday"
    /\ mbYears[2] = None

\* C4: when the search raises a service error, find_original_year returns
\* None at once: one search call, no retry, no release fetch, and the
\* playlist's year is what main then uses.
C4_SearchFailureReturnsNone ==
    searchFailed =>
        /\ pc \in {"got_year", "loop", "done"}
        /\ nSearch = 1 /\ nFetch = 0
        /\ mb_year = None
        /\ pc # "got_year" =>
              /\ mbYears[i] = None
              /\ years[i] = IF Truthy(spotify_year) THEN spotify_year ELSE None

\* C4 witness: a failed search, the playlist's year recorded
C4_Witness ==
    /\ searchFailed /\ pc = "loop"
    /\ nSearch = 1
    /\ years[i] = Some(2009)

\* find_original_year has returned from its loop over the recordings
LoopReturned == pc = "got_year" /\ ~searchFailed /\ recordings # <<>>

\* C5: a failed release fetch skips that candidate only: every surviving
\* candidate is fetched exactly once, the years of those fetched with success
\* count, and when every fetch fails the result is None.
C5_FetchFailureIsolated ==
    /\ \A n \in 1..Len(fetchCalls) : fetchCalls[n] <= 1
    /\ LoopReturned =>
          /\ \A n \in 1..Len(recordings) :
                ~Discarded(artist, recordings[n]) =>
                    fetchCalls[n] = 1 /\ fetchOK[n] \in {"ok", "error"}
          /\ mb_year = IF yearsOK = {} THEN None ELSE Some(MinOfSet(yearsOK))
          /\ (\A n \in 1..Len(recordings) : fetchOK[n] # "ok") => mb_year = None

\* C5 witness: the first fetch fails, the second gives the year returned
C5_Witness ==
    /\ LoopReturned
    /\ Len(recordings) = 2
    /\ fetchOK = <<"error", "ok">>
    /\ mb_year = Some(1967)

\* the recording has a primary credit name, and it does not match the artist
ForeignCredit(a, rec) ==
    \E m \in 1..Len(rec.artist_credit) :
        /\ rec.artist_credit[m].artist
        /\ \A j \in 1..(m - 1) : ~rec.artist_credit[j].artist
        /\ ~_artists_match(a, rec.artist_credit[m].name)

\* C6: a candidate is discarded (never fetched) exactly when it has a primary
\* credit name that does not match the artist; one without credit data is
\* fetched; when every candidate is discarded the result is None.
C6_DiscardedIffForeignCredit ==
    LoopReturned =>
        /\ \A n \in 1..Len(recordings) :
              (fetchCalls[n] = 0 /\ fetchOK[n] = "none")
                  <=> ForeignCredit(artist, recordings[n])
        /\ (\A n \in 1..Len(recordings) : ForeignCredit(artist, recordings[n]))
              => mb_year = None /\ nFetch = 0

\* C6 witness: a foreign recording is passed over, one without credit data
\* is fetched.
C6_Witness ==
    /\ LoopReturned
    /\ Len(recordings) = 2
    /\ ForeignCredit(artist, recordings[1])
    /\ recordings[2].artist_credit = <<>>
    /\ fetchCalls = <<0, 1>>
    /\ mb_year # None

\* C7: every MusicBrainz call, search or fetch, is issued only after a whole
\* sleep of 1.1 s begun after the previous call returned.
C7_CallsSpacedBySleep ==
    pc \in {"search_call", "fetch_call"} => waited >= SleepTicks

\* C7 witness: the second track's fetch, right after its search
C7_Witness ==
    /\ pc = "fetch_call" /\ i = 2
    /\ nSearch = 1
    /\ waited >= SleepTicks

=============================================================================
